---- MODULE Spec2Model ----
(***************************************************************************)
(* Model of the Sankey layout engine, renderSankey, of uncharted.          *)
(*                                                                         *)
(* Strings are sequences of one-character strings, so that trim, the      *)
(* '::' edge key and its split are computed, not assumed.  Numbers are     *)
(* exact rationals <<n, d>> with d > 0; <<0, 0>> stands for NaN.           *)
(***************************************************************************)
EXTENDS Integers, Sequences, FiniteSets, TLC

(***************************************************************************)
(* Bounds of the model.                                                    *)
(***************************************************************************)
\* longest input table drawn exhaustively from Rows
MaxRows == 3
\* the worklist loop is followed up to this level; the acyclic graphs of the
\* tables below have no path of more than two edges, so that a run that gets
\* here has gone around a cycle and never leaves the loop
MaxLevel == 4

(***************************************************************************)
(* Rational arithmetic (the code computes in IEEE doubles).                *)
(***************************************************************************)
RECURSIVE GCD(_, _)
GCD(a, b) == IF b = 0 THEN a ELSE GCD(b, a % b)

Abs(n) == IF n < 0 THEN -n ELSE n

Norm(n, d) ==
  IF d = 0 THEN <<0, 0>>
  ELSE LET g == GCD(Abs(n), Abs(d))
           s == IF d < 0 THEN -1 ELSE 1
       IN <<s * (n \div g), s * (d \div g)>>

NaN == <<0, 0>>
IsNaN(x) == x[2] = 0
R(n) == <<n, 1>>
Zero == <<0, 1>>

\* the operands are reduced by their common factors before they are
\* multiplied, to keep the intermediate integers small
RAdd(x, y) == IF IsNaN(x) \/ IsNaN(y) THEN NaN
              ELSE LET g == GCD(x[2], y[2])
                   IN Norm(x[1] * (y[2] \div g) + y[1] * (x[2] \div g),
                           (x[2] \div g) * y[2])
RNeg(x) == <<-x[1], x[2]>>
RSub(x, y) == RAdd(x, RNeg(y))
RMul(x, y) == IF IsNaN(x) \/ IsNaN(y) THEN NaN
              ELSE IF x[1] = 0 \/ y[1] = 0 THEN Zero
              ELSE LET g1 == GCD(Abs(x[1]), y[2])
                       g2 == GCD(Abs(y[1]), x[2])
                   IN Norm((x[1] \div g1) * (y[1] \div g2),
                           (x[2] \div g2) * (y[2] \div g1))
\* division is only applied to a non-zero divisor in this program
RDiv(x, y) == IF IsNaN(x) \/ IsNaN(y) THEN NaN
              ELSE RMul(x, Norm(y[2], y[1]))
\* comparisons with NaN are false, as in JavaScript
RLt(x, y) == /\ ~IsNaN(x) /\ ~IsNaN(y)
             /\ LET g == GCD(x[2], y[2])
                IN x[1] * (y[2] \div g) < y[1] * (x[2] \div g)
RLe(x, y) == /\ ~IsNaN(x) /\ ~IsNaN(y)
             /\ LET g == GCD(x[2], y[2])
                IN x[1] * (y[2] \div g) <= y[1] * (x[2] \div g)
RGt(x, y) == RLt(y, x)
RGe(x, y) == RLe(y, x)
RMax(x, y) == IF RGt(y, x) THEN y ELSE x
RMin(x, y) == IF RLt(y, x) THEN y ELSE x

(***************************************************************************)
(* Strings.                                                                *)
(***************************************************************************)
RECURSIVE TrimStart(_)
TrimStart(s) == IF s # <<>> /\ Head(s) = " " THEN TrimStart(Tail(s)) ELSE s

RECURSIVE TrimEnd(_)
TrimEnd(s) == IF s # <<>> /\ s[Len(s)] = " "
              THEN TrimEnd(SubSeq(s, 1, Len(s) - 1)) ELSE s

\* String.prototype.trim
Trim(s) == TrimEnd(TrimStart(s))

\* the template literal `${source}::${target}`
EdgeKey(source, target) == source \o <<":", ":">> \o target

\* position of the leftmost "::" in s, 0 when there is none
RECURSIVE IndexOfSep(_, _)
IndexOfSep(s, i) ==
  IF i + 1 > Len(s) THEN 0
  ELSE IF s[i] = ":" /\ s[i + 1] = ":" THEN i
  ELSE IndexOfSep(s, i + 1)

\* key.split('::')
RECURSIVE Split(_)
Split(s) ==
  LET j == IndexOfSep(s, 1)
  IN IF j = 0 THEN <<s>>
     ELSE <<SubSeq(s, 1, j - 1)>> \o Split(SubSeq(s, j + 2, Len(s)))

Digits == {"0", "1", "2", "3", "4", "5", "6", "7", "8", "9"}
DigitVal(c) ==
  CASE c = "0" -> 0 [] c = "1" -> 1 [] c = "2" -> 2 [] c = "3" -> 3
    [] c = "4" -> 4 [] c = "5" -> 5 [] c = "6" -> 6 [] c = "7" -> 7
    [] c = "8" -> 8 [] c = "9" -> 9

\* length of the longest prefix of digits of s
RECURSIVE DigitRun(_)
DigitRun(s) == IF s # <<>> /\ Head(s) \in Digits THEN 1 + DigitRun(Tail(s)) ELSE 0

RECURSIVE DigitsToInt(_, _)
DigitsToInt(s, acc) ==
  IF s = <<>> THEN acc ELSE DigitsToInt(Tail(s), 10 * acc + DigitVal(Head(s)))

RECURSIVE Pow10(_)
Pow10(k) == IF k = 0 THEN 1 ELSE 10 * Pow10(k - 1)

\* parseFloat on strings of blanks, signs, digits, '.' and letters
\* (no exponent and no "Infinity" in the strings of this model)
ParseFloat(str) ==
  LET s0   == TrimStart(str)
      neg  == s0 # <<>> /\ Head(s0) = "-"
      s1   == IF s0 # <<>> /\ Head(s0) \in {"-", "+"} THEN Tail(s0) ELSE s0
      ni   == DigitRun(s1)
      s2   == SubSeq(s1, ni + 1, Len(s1))
      dot  == s2 # <<>> /\ Head(s2) = "."
      s3   == IF dot THEN Tail(s2) ELSE <<>>
      nf   == DigitRun(s3)
      ip   == DigitsToInt(SubSeq(s1, 1, ni), 0)
      fp   == DigitsToInt(SubSeq(s3, 1, nf), 0)
      mag  == Norm(ip * Pow10(nf) + fp, Pow10(nf))
  IN IF ni + nf = 0 THEN NaN
     ELSE IF neg THEN RSub(Zero, mag) ELSE mag

(***************************************************************************)
(* Maps and insertion-ordered sets of the code.                            *)
(***************************************************************************)
EmptyMap == [k \in {} |-> Zero]
MapHas(m, k) == k \in DOMAIN m
\* m.get(k) || dflt
MapGet(m, k, dflt) == IF k \in DOMAIN m THEN m[k] ELSE dflt
MapSet(m, k, v) == (k :> v) @@ m

\* a variant that appends without looking for the element
SetAddAgain(seq, x) == Append(seq, x)

\* Set.prototype.add, the set kept as the sequence of its insertion order
SetAdd(seq, x) ==
  IF \E i \in 1..Len(seq) : seq[i] = x THEN seq ELSE Append(seq, x)

Range(seq) == {seq[i] : i \in 1..Len(seq)}

\* a Map / an Array holding the entries of f, computed once when it is built
MapOf(f) == f @@ EmptyMap
ArrayOf(f) == f \o <<>>

(***************************************************************************)
(* Edge builder: the data.forEach of renderSankey.                         *)
(***************************************************************************)
NoResult == [kind |-> "none", row |-> 0, label |-> <<>>]
Returned(k) == [kind |-> k, row |-> 0, label |-> <<>>]
\* a variant that counts the rows from 0 and forgets the header line
SelfLoopErrorNoHeader(rowIndex, source) ==
  [kind |-> "selfloop", row |-> rowIndex + 1, label |-> source]

\* new Error(`... Self-loop detected at row ${rowIndex + 2} - "${source}" ...`)
SelfLoopError(rowIndex, source) ==
  [kind |-> "selfloop", row |-> rowIndex + 2, label |-> source]

\* typeof v === 'number' ? v : parseFloat(v) || 0
RowValue(row) ==
  IF row.value.type = "number" THEN row.value.num
  ELSE LET p == ParseFloat(row.value.str)
       IN IF IsNaN(p) \/ p = Zero THEN Zero ELSE p

RowSource(row) == Trim(row.source)

\* a variant that compares the target as it was typed
RowTargetUntrimmed(row) == row.target

RowTarget(row) == Trim(row.target)

\* a variant that lets rows of value 0 through
RetainedNonNegative(row) ==
  RowSource(row) # <<>> /\ RowTarget(row) # <<>> /\ RGe(RowValue(row), Zero)

\* source && target && value > 0
Retained(row) ==
  RowSource(row) # <<>> /\ RowTarget(row) # <<>> /\ RGt(RowValue(row), Zero)

EmptyGraph ==
  [edges |-> <<>>, nodeSet |-> <<>>, nodeInFlow |-> EmptyMap,
   nodeOutFlow |-> EmptyMap, error |-> NoResult]

\* one call of the forEach callback; i is the 1-based position, rowIndex = i - 1
ParseRow(g, row, i) ==
  LET source == RowSource(row)
      target == RowTarget(row)
      value  == RowValue(row)
  IN IF ~Retained(row) THEN g
     ELSE IF source = target
     THEN [g EXCEPT !.error = SelfLoopError(i - 1, source)]
     ELSE [edges       |-> Append(g.edges,
                             [source |-> source, target |-> target, value |-> value]),
           nodeSet     |-> SetAdd(SetAdd(g.nodeSet, source), target),
           nodeOutFlow |-> MapSet(g.nodeOutFlow, source,
                             RAdd(MapGet(g.nodeOutFlow, source, Zero), value)),
           nodeInFlow  |-> MapSet(g.nodeInFlow, target,
                             RAdd(MapGet(g.nodeInFlow, target, Zero), value)),
           error       |-> g.error]

\* the forEach stops at the first throw
RECURSIVE ParseRows(_, _, _)
ParseRows(data, i, g) ==
  IF i > Len(data) \/ g.error.kind # "none" THEN g
  ELSE ParseRows(data, i + 1, ParseRow(g, data[i], i))

(***************************************************************************)
(* Edge aggregator.                                                        *)
(***************************************************************************)
\* edgeMap.set(key, (edgeMap.get(key) || 0) + value), entries in insertion order
EdgeMapAdd(m, key, value) ==
  IF \E i \in 1..Len(m) : m[i].key = key
  THEN [i \in 1..Len(m) |->
          IF m[i].key = key
          THEN [key |-> key, value |-> RAdd(m[i].value, value)] ELSE m[i]]
  ELSE Append(m, [key |-> key, value |-> value])

RECURSIVE BuildEdgeMap(_, _, _)
BuildEdgeMap(es, i, m) ==
  IF i > Len(es) THEN m
  ELSE BuildEdgeMap(es, i + 1,
         EdgeMapAdd(m, EdgeKey(es[i].source, es[i].target), es[i].value))

\* const [source, target] = key.split('::')
KeyToEdge(entry) ==
  LET parts == Split(entry.key)
  IN [source |-> parts[1], target |-> parts[2], value |-> entry.value]

AggregateEdges(es) ==
  LET m == BuildEdgeMap(es, 1, <<>>)
  IN ArrayOf([i \in 1..Len(m) |-> KeyToEdge(m[i])])

\* nodeOutFlowCount / nodeInFlowCount
OutFlowCount(agg, n) == Cardinality({i \in 1..Len(agg) : agg[i].source = n})
InFlowCount(agg, n) == Cardinality({i \in 1..Len(agg) : agg[i].target = n})

(***************************************************************************)
(* Level assigner.                                                         *)
(***************************************************************************)
\* nodes.filter(n => !nodeInFlow.has(n) || nodeInFlow.get(n) === 0)
SourceNodes(ns, inFlow) ==
  SelectSeq(ns, LAMBDA n : ~MapHas(inFlow, n) \/ inFlow[n] = Zero)

InitialQueue(srcs) == [i \in 1..Len(srcs) |-> [node |-> srcs[i], level |-> 0]]
InitialLevels(srcs) == [n \in Range(srcs) |-> 0]

\* a variant that assigns a level on the first visit only
RECURSIVE PropagateFirstVisit(_, _, _, _, _)
PropagateFirstVisit(agg, i, item, lv, q) ==
  IF i > Len(agg) THEN [nodeLevel |-> lv, queue |-> q]
  ELSE LET edge == agg[i]
           targetLevel == item.level + 1
       IN IF edge.source = item.node /\ ~MapHas(lv, edge.target)
          THEN PropagateFirstVisit(agg, i + 1, item,
                 MapSet(lv, edge.target, targetLevel),
                 Append(q, [node |-> edge.target, level |-> targetLevel]))
          ELSE PropagateFirstVisit(agg, i + 1, item, lv, q)

\* the aggregatedEdges.forEach inside one iteration of the while loop
RECURSIVE Propagate(_, _, _, _, _)
Propagate(agg, i, item, lv, q) ==
  IF i > Len(agg) THEN [nodeLevel |-> lv, queue |-> q]
  ELSE LET edge == agg[i]
           targetLevel == item.level + 1
       IN IF edge.source = item.node
             /\ (~MapHas(lv, edge.target) \/ targetLevel > lv[edge.target])
          THEN Propagate(agg, i + 1, item,
                 MapSet(lv, edge.target, targetLevel),
                 Append(q, [node |-> edge.target, level |-> targetLevel]))
          ELSE Propagate(agg, i + 1, item, lv, q)

\* nodes.forEach(n => { if (!nodeLevel.has(n)) nodeLevel.set(n, 0) })
FillUnassigned(ns, lv) ==
  [n \in (DOMAIN lv) \cup Range(ns) |-> IF n \in DOMAIN lv THEN lv[n] ELSE 0]

RECURSIVE SetMax(_)
SetMax(S) == LET x == CHOOSE y \in S : TRUE
             IN IF S = {x} THEN x
                ELSE LET m == SetMax(S \ {x}) IN IF x > m THEN x ELSE m

\* Math.max(...nodeLevel.values()) + 1
LevelCount(lv) == SetMax({lv[n] : n \in DOMAIN lv}) + 1

\* levels[nodeLevel.get(n)].push(n)
Levels(ns, lv) ==
  [l \in 1..LevelCount(lv) |-> SelectSeq(ns, LAMBDA n : lv[n] = l - 1)]

(***************************************************************************)
(* Node sizer.  G is the graph after level assignment:                     *)
(*   [nodes, nodeLevel, aggregatedEdges, nodeInFlow, nodeOutFlow]          *)
(***************************************************************************)
minNodeHeight == R(2)
minGapHeight == R(4)
minFlowHeightBase == <<2, 5>>
proportionalMinHeight == <<2, 5>>
Hundred == R(100)

RECURSIVE RSum(_)
RSum(seq) == IF seq = <<>> THEN Zero ELSE RAdd(Head(seq), RSum(Tail(seq)))

\* Math.max(...seq) over a non-empty sequence of numbers
RECURSIVE RMaxSeq(_)
RMaxSeq(seq) == IF Len(seq) = 1 THEN seq[1] ELSE RMax(seq[1], RMaxSeq(Tail(seq)))

RECURSIVE RMinSeq(_)
RMinSeq(seq) == IF Len(seq) = 1 THEN seq[1] ELSE RMin(seq[1], RMinSeq(Tail(seq)))

\* nodeThroughput
NodeThroughput(G) ==
  [n \in Range(G.nodes) |->
     RMax(MapGet(G.nodeInFlow, n, Zero), MapGet(G.nodeOutFlow, n, Zero))]

\* a variant that takes the largest throughput of the level, not the total
LevelPeakThroughput(tp, levelNodes) ==
  IF levelNodes = <<>> THEN Zero
  ELSE RMaxSeq([i \in 1..Len(levelNodes) |-> tp[levelNodes[i]]])

\* levelThroughput[levelIndex]
LevelThroughput(tp, levelNodes) ==
  RSum([i \in 1..Len(levelNodes) |-> tp[levelNodes[i]]])

MaxLevelThroughput(tp, lvls) ==
  RMaxSeq([l \in 1..Len(lvls) |-> LevelThroughput(tp, lvls[l])])

\* (nodePadding / 400) * 100
PaddingPct(cfg) == RMul(RDiv(R(cfg.nodePadding), R(400)), Hundred)

\* a variant that gives the share, not the percentage
BaseHeightAsShare(throughput, maxLT) == RDiv(throughput, maxLT)

\* (throughput / maxLevelThroughput) * 100
BaseHeight(throughput, maxLT) == RMul(RDiv(throughput, maxLT), Hundred)

ProportionalScale(tp, maxLT, ns, cfg) ==
  IF ~cfg.proportional THEN R(1)
  ELSE LET smallestHeight ==
             RMinSeq([i \in 1..Len(ns) |-> BaseHeight(tp[ns[i]], maxLT)])
       IN IF RGt(smallestHeight, Zero) /\ RLt(smallestHeight, proportionalMinHeight)
          THEN RDiv(proportionalMinHeight, smallestHeight)
          ELSE R(1)

\* nodeHeights[..].height before the minimum is enforced
RawHeight(throughput, maxLT, proportionalScale) ==
  RMul(BaseHeight(throughput, maxLT), proportionalScale)

\* a variant that ignores the number of flows of the node
NodeMinVisible(agg, n) == minNodeHeight

NodeMin(agg, n) ==
  LET outFlows == OutFlowCount(agg, n)
      inFlows  == InFlowCount(agg, n)
      maxFlows == IF outFlows > inFlows THEN outFlows ELSE inFlows
      flowBasedMin == RMul(R(maxFlows), minFlowHeightBase)
  IN RMax(minNodeHeight, flowBasedMin)

\* a variant that enforces the minimum in proportional mode too
SizedHeightFloored(raw, nodeMin, cfg) ==
  IF RLt(raw, nodeMin) THEN nodeMin ELSE raw

\* nodeHeights[..].height after the minimum is enforced
SizedHeight(raw, nodeMin, cfg) ==
  IF ~cfg.proportional /\ RLt(raw, nodeMin) THEN nodeMin ELSE raw

\* raw maps the nodes to their raw heights
EffectivePadding(raw, levelNodes, cfg) ==
  LET smallNodeCount ==
        Cardinality({i \in 1..Len(levelNodes) :
                       RLt(raw[levelNodes[i]], minNodeHeight)})
  IN IF ~cfg.proportional /\ 2 * smallNodeCount > Len(levelNodes)
     THEN RMax(PaddingPct(cfg), minGapHeight)
     ELSE PaddingPct(cfg)

\* a variant that advances by the padding only
StackTopByPadding(height, padding, levelNodes, k) == RMul(R(k - 1), padding)

\* currentTop before the k-th node of the level is placed
RECURSIVE StackTop(_, _, _, _)
StackTop(height, padding, levelNodes, k) ==
  IF k = 1 THEN Zero
  ELSE RAdd(StackTop(height, padding, levelNodes, k - 1),
            RAdd(height[levelNodes[k - 1]], padding))

\* levelHeight = currentTop - effectivePadding
LevelHeight(height, padding, levelNodes) ==
  RSub(StackTop(height, padding, levelNodes, Len(levelNodes) + 1), padding)

\* a variant that looks at the first level only
FirstLevelHeight(levelHeights) == RMax(Hundred, levelHeights[1])

\* maxLevelHeight starts at 100
MaxLevelHeight(levelHeights) == RMaxSeq(<<Hundred>> \o levelHeights)

PosIn(levelNodes, n) == CHOOSE k \in 1..Len(levelNodes) : levelNodes[k] = n

\* a variant that leaves the positions as they are
NormaliseNever(x, hs) == x

\* pos.top / heightScale, pos.height / heightScale when heightScale > 1
Normalise(x, hs) == IF RGt(hs, R(1)) THEN RDiv(x, hs) ELSE x

\* a variant that centres the first node of the level
CenterOffsetOfFirst(pos, levelNodes) ==
  IF levelNodes = <<>> THEN R(50)
  ELSE RDiv(RSub(Hundred, RAdd(pos[levelNodes[1]].top, pos[levelNodes[1]].height)),
            R(2))

\* (100 - maxBottom) / 2 of one level
CenterOffset(pos, levelNodes) ==
  LET maxBottom ==
        RMaxSeq(<<Zero>> \o [i \in 1..Len(levelNodes) |->
                   RAdd(pos[levelNodes[i]].top, pos[levelNodes[i]].height)])
  IN RDiv(RSub(Hundred, maxBottom), R(2))

\* pos.top + centerOffset when centerOffset > 0
Centre(p, off) == IF RGt(off, Zero) THEN [p EXCEPT !.top = RAdd(p.top, off)] ELSE p

\* levels, nodeThroughput, maxLevelThroughput and proportionalScale
Throughputs(G, cfg) ==
  LET lvls  == Levels(G.nodes, G.nodeLevel)
      tp    == MapOf(NodeThroughput(G))
      maxLT == MaxLevelThroughput(tp, lvls)
  IN [levels             |-> lvls,
      nodeThroughput     |-> tp,
      maxLevelThroughput |-> maxLT,
      proportionalScale  |-> ProportionalScale(tp, maxLT, G.nodes, cfg)]

\* the heights of the nodes, raw and with the minimum enforced
Heights(G, cfg, t) ==
  LET raw == MapOf([n \in Range(G.nodes) |->
               RawHeight(t.nodeThroughput[n], t.maxLevelThroughput,
                         t.proportionalScale)])
  IN [rawHeight   |-> raw,
      sizedHeight |->
        MapOf([n \in Range(G.nodes) |->
           SizedHeight(raw[n], NodeMin(G.aggregatedEdges, n), cfg)])]

\* effectivePadding, levelHeight and heightScale, lvls being the levels
Scale(cfg, lvls, h) ==
  LET pad == ArrayOf([l \in 1..Len(lvls) |->
               EffectivePadding(h.rawHeight, lvls[l], cfg)])
      lh  == ArrayOf([l \in 1..Len(lvls) |->
               LevelHeight(h.sizedHeight, pad[l], lvls[l])])
  IN [effectivePadding |-> pad,
      levelHeight      |-> lh,
      heightScale      |-> RDiv(MaxLevelHeight(lh), Hundred)]

\* nodePosition as the levels.forEach of the sizing leaves it
Placed(G, lvls, h, sc) ==
  MapOf([n \in Range(G.nodes) |->
     [top    |-> StackTop(h.sizedHeight, sc.effectivePadding[G.nodeLevel[n] + 1],
                          lvls[G.nodeLevel[n] + 1],
                          PosIn(lvls[G.nodeLevel[n] + 1], n)),
      height |-> h.sizedHeight[n],
      level  |-> G.nodeLevel[n]]])

\* a variant that normalises the tops and not the heights
ScaledTops(placed, hs) ==
  MapOf([n \in DOMAIN placed |->
     [top    |-> Normalise(placed[n].top, hs),
      height |-> placed[n].height,
      level  |-> placed[n].level]])

\* nodePosition normalised to the 0-100 range
Scaled(placed, hs) ==
  MapOf([n \in DOMAIN placed |->
     [top    |-> Normalise(placed[n].top, hs),
      height |-> Normalise(placed[n].height, hs),
      level  |-> placed[n].level]])

\* nodePosition with every level centred
Centred(G, lvls, scaled) ==
  MapOf([n \in Range(G.nodes) |->
     Centre(scaled[n], CenterOffset(scaled, lvls[G.nodeLevel[n] + 1]))])

\* the locals of the sizing code put together
SizingOf(t, h, sc, nodePos) ==
  [levels             |-> t.levels,
   nodeThroughput     |-> t.nodeThroughput,
   maxLevelThroughput |-> t.maxLevelThroughput,
   proportionalScale  |-> t.proportionalScale,
   rawHeight          |-> h.rawHeight,
   sizedHeight        |-> h.sizedHeight,
   effectivePadding   |-> sc.effectivePadding,
   levelHeight        |-> sc.levelHeight,
   heightScale        |-> sc.heightScale,
   nodePosition       |-> nodePos]

SizingFrom(G, cfg, t, h, sc) ==
  SizingOf(t, h, sc,
           Centred(G, t.levels,
                   Scaled(Placed(G, t.levels, h, sc), sc.heightScale)))

SizingWith(G, cfg, t, h) == SizingFrom(G, cfg, t, h, Scale(cfg, t.levels, h))

SizingAfter(G, cfg, t) == SizingWith(G, cfg, t, Heights(G, cfg, t))

\* the sizing code, from nodeThroughput to the centred nodePosition
Sizing(G, cfg) == SizingAfter(G, cfg, Throughputs(G, cfg))

(***************************************************************************)
(* Flow positioner.                                                        *)
(***************************************************************************)
\* the comparator of aggregatedEdges.sort
CompareEdges(lv, a, b) ==
  IF lv[a.source] # lv[b.source] THEN lv[a.source] - lv[b.source]
  ELSE lv[a.target] - lv[b.target]

\* e placed behind every element that does not compare greater (stable sort)
InsertSorted(lv, sorted, e) ==
  LET later == {p \in 1..Len(sorted) : CompareEdges(lv, sorted[p], e) > 0}
      at    == IF later = {} THEN Len(sorted) + 1
               ELSE CHOOSE p \in later : \A q \in later : p <= q
  IN SubSeq(sorted, 1, at - 1) \o <<e>> \o SubSeq(sorted, at, Len(sorted))

RECURSIVE SortFrom(_, _, _, _)
SortFrom(lv, agg, i, sorted) ==
  IF i > Len(agg) THEN sorted
  ELSE SortFrom(lv, agg, i + 1, InsertSorted(lv, sorted, agg[i]))

SortEdges(G) == SortFrom(G.nodeLevel, G.aggregatedEdges, 1, <<>>)

\* nodePosition.get(edge.source) or nodePosition.get(edge.target) is undefined,
\* and reading .level of it throws a TypeError
MissingEndpoint(G) ==
  \E i \in 1..Len(G.aggregatedEdges) :
     \/ G.aggregatedEdges[i].source \notin Range(G.nodes)
     \/ G.aggregatedEdges[i].target \notin Range(G.nodes)

\* flowData, es the sorted aggregatedEdges
FlowData(es, pos, tp) ==
  ArrayOf([i \in 1..Len(es) |->
     [source     |-> es[i].source,
      target     |-> es[i].target,
      value      |-> es[i].value,
      fromLevel  |-> pos[es[i].source].level,
      toLevel    |-> pos[es[i].target].level,
      fromHeight |-> RMul(RDiv(es[i].value, tp[es[i].source]), pos[es[i].source].height),
      toHeight   |-> RMul(RDiv(es[i].value, tp[es[i].target]), pos[es[i].target].height),
      index      |-> i - 1]])

\* a variant that keeps one offset for all the nodes
EndOffsetShared(fd, j, i, end, hk) ==
  RSum([k \in 1..(i - 1) |-> IF k >= j THEN fd[k][hk] ELSE Zero])

\* nodeOutOffset / nodeInOffset when flow i is reached: the heights of the
\* flows before i that share its end
RECURSIVE EndOffset(_, _, _, _, _)
EndOffset(fd, j, i, end, hk) ==
  IF j >= i THEN Zero
  ELSE RAdd(IF fd[j][end] = fd[i][end] THEN fd[j][hk] ELSE Zero,
            EndOffset(fd, j + 1, i, end, hk))

\* flows, before the minimum flow heights are enforced
StackedFlows(fd, pos) ==
  ArrayOf([i \in 1..Len(fd) |->
     [source     |-> fd[i].source,
      target     |-> fd[i].target,
      value      |-> fd[i].value,
      fromLevel  |-> fd[i].fromLevel,
      toLevel    |-> fd[i].toLevel,
      fromHeight |-> fd[i].fromHeight,
      toHeight   |-> fd[i].toHeight,
      index      |-> fd[i].index,
      fromTop    |-> RAdd(pos[fd[i].source].top,
                          EndOffset(fd, 1, i, "source", "fromHeight")),
      toTop      |-> RAdd(pos[fd[i].target].top,
                          EndOffset(fd, 1, i, "target", "toHeight"))]])

\* minFlowHeightBase / (heightScale > 1 ? heightScale : 1)
MinFlowHeight(hs) == RDiv(minFlowHeightBase, IF RGt(hs, R(1)) THEN hs ELSE R(1))

\* a variant that raises the small flows and takes nothing from the large
EnforceMinHeightsNoBorrow(hs, ts, nodeTop, minFlowHeight) ==
  LET nh == ArrayOf([i \in 1..Len(hs) |-> RMax(hs[i], minFlowHeight)])
  IN [i \in 1..Len(hs) |->
        [height |-> nh[i],
         top    |-> RAdd(nodeTop, RSum(SubSeq(nh, 1, i - 1)))]]

\* enforceMinHeights on the heights hs and tops ts of the flows at one side
\* of one node; the result is the sequence of [height, top]
EnforceMinHeights(hs, ts, nodeTop, minFlowHeight) ==
  LET idx   == 1..Len(hs)
      small == {i \in idx : RLt(hs[i], minFlowHeight)}
      large == {i \in idx : RGe(hs[i], minFlowHeight)}
      spaceNeeded == RSum([i \in idx |->
                        IF i \in small THEN RSub(minFlowHeight, hs[i]) ELSE Zero])
      largeTotal  == RSum([i \in idx |-> IF i \in large THEN hs[i] ELSE Zero])
      borrowRatio == RMin(R(1), RDiv(spaceNeeded, largeTotal))
      nh == ArrayOf([i \in idx |->
               IF i \in small THEN minFlowHeight
               ELSE IF RLe(largeTotal, Zero) THEN hs[i]
               ELSE IF i \in large THEN RMul(hs[i], RSub(R(1), borrowRatio))
               ELSE hs[i]])
  IN IF small = {}
     THEN [i \in idx |-> [height |-> hs[i], top |-> ts[i]]]
     ELSE [i \in idx |->
             [height |-> nh[i],
              top    |-> RAdd(nodeTop, RSum(SubSeq(nh, 1, i - 1)))]]

\* positions in fs of the flows sharing the end `end` with flow i, in order
Group(fs, i, end) ==
  LET S == {j \in 1..Len(fs) : fs[j][end] = fs[i][end]}
  IN [k \in 1..Cardinality(S) |->
        CHOOSE j \in S : Cardinality({x \in S : x < j}) = k - 1]

\* the flows after flowsBySource (end = "source") or flowsByTarget
\* (end = "target") went through enforceMinHeights
EnforceSide(fs, pos, minFlowHeight, end, hk, tk) ==
  ArrayOf([i \in 1..Len(fs) |->
     LET grp == Group(fs, i, end)
         k   == CHOOSE x \in 1..Len(grp) : grp[x] = i
         res == EnforceMinHeights([x \in 1..Len(grp) |-> fs[grp[x]][hk]],
                                  [x \in 1..Len(grp) |-> fs[grp[x]][tk]],
                                  pos[fs[i][end]].top, minFlowHeight)
     IN [fs[i] EXCEPT ![hk] = res[k].height, ![tk] = res[k].top]])

\* a variant without the pass that enforces the minimum flow height
FlowsAsStacked(stacked, pos, minFlowHeight) == stacked

\* flows, as rendered
Flows(stacked, pos, minFlowHeight) ==
  EnforceSide(
    EnforceSide(stacked, pos, minFlowHeight, "source", "fromHeight", "fromTop"),
    pos, minFlowHeight, "target", "toHeight", "toTop")

(***************************************************************************)
(* Inputs: the tables and options a caller passes to renderSankey.         *)
(***************************************************************************)
Num(n) == [type |-> "number", num |-> R(n), str |-> <<>>]
Str(s) == [type |-> "string", num |-> Zero, str |-> s]
Row(s, t, v) == [source |-> s, target |-> t, value |-> v]

lA == <<"A">>
lB == <<"B">>
lC == <<"C">>
lD == <<"D">>
lE == <<"E">>
lF == <<"F">>
lG == <<"G">>
lH == <<"H">>
lAB == <<"A", ":", ":", "B">>
lBC == <<"B", ":", ":", "C">>

\* the rows the small tables are made of
Rows ==
  { \* edges among A, B and C: chains, a skipped level, a cycle
    Row(lA, lB, Num(1)), Row(lB, lC, Num(1)), Row(lA, lC, Num(1)),
    Row(lC, lB, Num(1)),
    \* A -> B again, with blanks to trim and a value to parse
    Row(<<" ", "A">>, <<"B", " ">>, Str(<<"2">>)),
    \* self-loops
    Row(lA, lA, Num(1)),
    Row(lB, <<" ", "B">>, Str(<<"1", ".", "5">>)),
    \* rows that are discarded
    Row(lC, lC, Num(0)),
    Row(lB, lB, Str(<<"x">>)),
    Row(<<" ">>, lB, Num(-1)),
    \* labels that contain the separator of the edge key
    Row(lAB, lC, Num(1)), Row(lA, lBC, Num(1)) }

RECURSIVE TablesUpTo(_)
TablesUpTo(n) ==
  IF n = 0 THEN {<<>>}
  ELSE LET T == TablesUpTo(n - 1)
       IN T \cup {Append(t, r) : t \in {x \in T : Len(x) = n - 1}, r \in Rows}

\* tables with other values, and longer ones
ScenarioTables ==
  { \* the longest path wins over the direct edge
    <<Row(lA, lB, Num(10)), Row(lB, lC, Num(10)), Row(lA, lC, Num(5))>>,
    \* the direct edge comes first
    <<Row(lA, lC, Num(5)), Row(lA, lB, Num(10)), Row(lB, lC, Num(10))>>,
    \* duplicate edges
    <<Row(lA, lB, Num(3)), Row(lA, lB, Num(7)), Row(lB, lA, Num(2))>>,
    \* a cycle that is reached from a source
    <<Row(lA, lB, Num(1)), Row(lB, lC, Num(1)), Row(lC, lB, Num(1))>>,
    \* a self-loop between valid rows
    <<Row(lA, lB, Num(1)), Row(lB, <<" ", "B">>, Str(<<"1", ".", "5">>)),
      Row(lB, lC, Num(1))>>,
    \* two self-loops behind a discarded row
    <<Row(lC, lC, Num(0)), Row(lB, <<" ", "B">>, Str(<<"1", ".", "5">>)),
      Row(lA, lA, Num(1))>>,
    \* nothing but discarded rows
    <<Row(<<" ">>, lB, Num(-1)), Row(lB, lB, Str(<<"x">>)), Row(lC, lC, Num(0))>>,
    \* a node fed by one thick and two thin flows
    <<Row(lA, lD, Num(3)), Row(lB, lD, Num(1)), Row(lC, lD, Num(1)),
      Row(lB, lE, Num(693)), Row(lC, lE, Num(2))>>,
    \* the same node, feeding one thick and two thin flows
    <<Row(lD, lA, Num(3)), Row(lD, lB, Num(1)), Row(lD, lC, Num(1)),
      Row(lE, lB, Num(693)), Row(lE, lC, Num(2))>>,
    \* one large flow into a node and two tiny flows out of it
    <<Row(lA, lB, Num(1000)), Row(lB, lC, Str(<<"0", ".", "0", "0", "1">>)),
      Row(lB, lD, Str(<<"0", ".", "0", "0", "1">>))>>,
    \* two labels in a discarded row only, and two sources of one target
    <<Row(lD, lE, Num(0)), Row(lB, lC, Num(1)), Row(lA, lC, Num(1))>>,
    \* a node of six thin flows beside a thick one
    <<Row(lA, lB, Num(1)), Row(lA, lC, Num(1)), Row(lA, lD, Num(1)),
      Row(lA, lE, Num(1)), Row(lA, lF, Num(1)), Row(lA, lG, Num(1)),
      Row(lH, lB, Num(270))>>,
    \* a level of two nodes of six thin flows each, and a thick flow behind
    <<Row(lA, lB, Num(1)), Row(lA, lC, Num(1)), Row(lA, lD, Num(1)),
      Row(lA, lE, Num(1)), Row(lA, lF, Num(1)), Row(lA, lG, Num(1)),
      Row(lH, lB, Num(1)), Row(lH, lC, Num(1)), Row(lH, lD, Num(1)),
      Row(lH, lE, Num(1)), Row(lH, lF, Num(1)), Row(lH, lG, Num(1)),
      Row(lB, lC, Num(292))>>,
    \* a node of four thin flows, one just above the minimum and a thick one
    <<Row(lA, lB, Num(1)), Row(lA, lC, Num(1)), Row(lA, lD, Num(1)),
      Row(lA, lE, Num(1)), Row(lA, lF, Num(21)), Row(lA, lG, Num(95)),
      Row(lH, lG, Num(5880))>>,
    \* no node without inflow, and a label with the separator
    <<Row(lAB, lC, Num(1)), Row(lC, lAB, Num(1))>> }

Tables == TablesUpTo(MaxRows) \cup ScenarioTables

\* the default nodePadding for every table; none and a wide one for the
\* tables of ScenarioTables
Configs ==
  [data : Tables, nodePadding : {10}, proportional : BOOLEAN]
    \cup [data : ScenarioTables, nodePadding : {0, 40}, proportional : BOOLEAN]

(***************************************************************************)
(* State.                                                                  *)
(***************************************************************************)
VARIABLES
  pc,               \* "idle", "bfs" (in the while loop), "returned", "thrown"
  config,           \* the argument of the running or last call
  edges, nodes, nodeInFlow, nodeOutFlow,
  aggregatedEdges,
  nodeLevel, queue,
  levels, nodePosition, heightScale,
  stackedFlows,     \* flows before enforceMinHeights
  flows,            \* flows as rendered
  result,           \* what the call returned or threw
  previous          \* history: how the call before this one ended

vars == <<pc, config, edges, nodes, nodeInFlow, nodeOutFlow, aggregatedEdges,
          nodeLevel, queue, levels, nodePosition, heightScale, stackedFlows,
          flows, result, previous>>

graphVars == <<edges, nodes, nodeInFlow, nodeOutFlow, aggregatedEdges>>
layoutVars == <<levels, nodePosition, heightScale, stackedFlows, flows>>

NoConfig == [data |-> <<>>, nodePadding |-> 10, proportional |-> FALSE]

Init ==
  /\ pc = "idle"
  /\ config = NoConfig
  /\ edges = <<>> /\ nodes = <<>>
  /\ nodeInFlow = EmptyMap /\ nodeOutFlow = EmptyMap
  /\ aggregatedEdges = <<>>
  /\ nodeLevel = EmptyMap /\ queue = <<>>
  /\ levels = <<>> /\ nodePosition = EmptyMap /\ heightScale = R(1)
  /\ stackedFlows = <<>> /\ flows = <<>>
  /\ result = NoResult
  /\ previous = "none"

\* a variant whose edges array outlives the call
FreshKeepsEdges(g, agg, lv, q) ==
  /\ edges' = edges \o g.edges /\ nodes' = g.nodeSet
  /\ nodeInFlow' = g.nodeInFlow /\ nodeOutFlow' = g.nodeOutFlow
  /\ aggregatedEdges' = agg
  /\ nodeLevel' = lv /\ queue' = q
  /\ levels' = <<>> /\ nodePosition' = EmptyMap /\ heightScale' = R(1)
  /\ stackedFlows' = <<>> /\ flows' = <<>>

\* every local of the previous call is gone when a call starts
Fresh(g, agg, lv, q) ==
  /\ edges' = g.edges /\ nodes' = g.nodeSet
  /\ nodeInFlow' = g.nodeInFlow /\ nodeOutFlow' = g.nodeOutFlow
  /\ aggregatedEdges' = agg
  /\ nodeLevel' = lv /\ queue' = q
  /\ levels' = <<>> /\ nodePosition' = EmptyMap /\ heightScale' = R(1)
  /\ stackedFlows' = <<>> /\ flows' = <<>>

\* renderSankey from its entry to the start of the while loop
Render(cfg) ==
  /\ config' = cfg
  /\ previous' = previous
  /\ \E g \in {ParseRows(cfg.data, 1, EmptyGraph)} :
       IF Len(cfg.data) = 0
       THEN /\ Fresh(EmptyGraph, <<>>, EmptyMap, <<>>)
            /\ result' = Returned("nodata") /\ pc' = "returned"
       ELSE IF g.error.kind # "none"
       THEN /\ Fresh(g, <<>>, EmptyMap, <<>>)
            /\ result' = g.error /\ pc' = "thrown"
       ELSE IF Len(g.edges) = 0
       THEN /\ Fresh(g, <<>>, EmptyMap, <<>>)
            /\ result' = Returned("noedges") /\ pc' = "returned"
       ELSE /\ \E srcs \in {SourceNodes(g.nodeSet, g.nodeInFlow)} :
                 Fresh(g, AggregateEdges(g.edges),
                       InitialLevels(srcs), InitialQueue(srcs))
            /\ result' = NoResult /\ pc' = "bfs"

\* one iteration of while (queue.length > 0)
BfsStep ==
  /\ pc = "bfs"
  /\ queue # <<>>
  /\ Head(queue).level < MaxLevel
  /\ LET r == Propagate(aggregatedEdges, 1, Head(queue), nodeLevel, Tail(queue))
     IN /\ nodeLevel' = r.nodeLevel
        /\ queue' = r.queue
  /\ UNCHANGED <<pc, config, graphVars, layoutVars, result, previous>>

Graph ==
  [nodes |-> nodes, nodeLevel |-> FillUnassigned(nodes, nodeLevel),
   aggregatedEdges |-> aggregatedEdges,
   nodeInFlow |-> nodeInFlow, nodeOutFlow |-> nodeOutFlow]

\* renderSankey from the end of the while loop to its return
Layout ==
  /\ pc = "bfs"
  /\ queue = <<>>
  /\ \E G \in {Graph} : \E sz \in {Sizing(G, config)} :
        /\ nodeLevel' = G.nodeLevel
        /\ levels' = sz.levels
        /\ nodePosition' = sz.nodePosition
        /\ heightScale' = sz.heightScale
        /\ IF MissingEndpoint(G)
           THEN \* the sort compares undefined levels and flowData throws
                /\ UNCHANGED <<aggregatedEdges, stackedFlows, flows>>
                /\ result' = Returned("typeerror") /\ pc' = "thrown"
           ELSE \E es \in {SortEdges(G)} :
                \E st \in {StackedFlows(
                             FlowData(es, sz.nodePosition, sz.nodeThroughput),
                             sz.nodePosition)} :
                   /\ aggregatedEdges' = es
                   /\ stackedFlows' = st
                   /\ flows' = Flows(st, sz.nodePosition, MinFlowHeight(sz.heightScale))
                   /\ result' = Returned("html") /\ pc' = "returned"
  /\ UNCHANGED <<config, edges, nodes, nodeInFlow, nodeOutFlow, queue, previous>>

\* the caller has taken the result; the locals of the call are garbage
Return(prev) ==
  /\ pc \in {"returned", "thrown"}
  /\ pc' = "idle"
  /\ config' = NoConfig
  /\ Fresh(EmptyGraph, <<>>, EmptyMap, <<>>)
  /\ result' = NoResult
  /\ previous' = prev

\* the end of a call, no history kept
Finish == Return(previous)

\* a caller renders some chart
Call == pc = "idle" /\ \E cfg \in Configs : Render(cfg)

Next == Call \/ BfsStep \/ Layout \/ Finish

Spec == Init /\ [][Next]_vars

\* Sequences of calls, with the outcome of the call before in the history.
\* The tables are one row shorter, so that the history fits.
SequenceConfigs ==
  [data : TablesUpTo(MaxRows - 1) \cup ScenarioTables, nodePadding : {10},
   proportional : BOOLEAN]

CallAgain == pc = "idle" /\ \E cfg \in SequenceConfigs : Render(cfg)

\* the end of a call, remembered by the history
FinishRecorded == Return(result.kind)

NextInSequence == CallAgain \/ BfsStep \/ Layout \/ FinishRecorded

SequenceSpec == Init /\ [][NextInSequence]_vars

(***************************************************************************)
(* Notions the properties are stated with.                                 *)
(***************************************************************************)
Called == pc # "idle"
Finished == pc \in {"returned", "thrown"}
\* the while loop and the pass over the unassigned nodes are over
Levelled == Finished /\ result.kind \in {"html", "typeerror"}
Rendered == pc = "returned" /\ result.kind = "html"

\* a row that takes part in the graph
Kept(row) ==
  /\ Trim(row.source) # <<>>
  /\ Trim(row.target) # <<>>
  /\ RGt(RowValue(row), Zero)
SelfLoopRow(row) == Kept(row) /\ Trim(row.source) = Trim(row.target)
KeptRows(data) == {i \in 1..Len(data) : Kept(data[i])}
LoopRows(data) == {i \in 1..Len(data) : SelfLoopRow(data[i])}

\* the vertices and arcs of the aggregated graph
Vertices(agg) ==
  {agg[i].source : i \in 1..Len(agg)} \cup {agg[i].target : i \in 1..Len(agg)}
Preds(agg, v) == {agg[i].source : i \in {j \in 1..Len(agg) : agg[j].target = v}}
Succs(agg, S) == {agg[i].target : i \in {j \in 1..Len(agg) : agg[j].source \in S}}

\* the vertices on a path of at least one arc from a vertex of S
RECURSIVE Closure(_, _)
Closure(agg, S) ==
  LET T == S \cup Succs(agg, S) IN IF T = S THEN S ELSE Closure(agg, T)
Descendants(agg, S) == Closure(agg, Succs(agg, S))

Acyclic(agg) == \A v \in Vertices(agg) : v \notin Descendants(agg, {v})

\* number of arcs of the longest path that ends in v, in an acyclic graph
RECURSIVE Depth(_, _)
Depth(agg, v) ==
  IF Preds(agg, v) = {} THEN 0
  ELSE 1 + SetMax({Depth(agg, u) : u \in Preds(agg, v)})

\* the nodes the propagation starts from, and those it reaches
NoInflow == {n \in Range(nodes) : ~MapHas(nodeInFlow, n)}
Reached == NoInflow \cup Descendants(aggregatedEdges, NoInflow)

(***************************************************************************)
(* C1.  Level monotonicity.                                                *)
(***************************************************************************)
\* C1 as claimed: when level assignment is over, every aggregated edge
\* (u -> v) has level(v) > level(u), cycles and unreached nodes included.
C1_EveryEdgeAscends ==
  Levelled =>
    \A i \in 1..Len(aggregatedEdges) :
      LET e == aggregatedEdges[i]
      IN (MapHas(nodeLevel, e.source) /\ MapHas(nodeLevel, e.target))
           => nodeLevel[e.target] > nodeLevel[e.source]

\* C1 amended: when level assignment is over, every aggregated edge (u -> v)
\* whose source u is a node without inflow or is reached from one has
\* level(v) > level(u).
C1_ReachedEdgeAscends ==
  Levelled =>
    \A i \in 1..Len(aggregatedEdges) :
      LET e == aggregatedEdges[i]
      IN e.source \in Reached
           => /\ MapHas(nodeLevel, e.source) /\ MapHas(nodeLevel, e.target)
              /\ nodeLevel[e.target] > nodeLevel[e.source]

\* a finished assignment with a reached edge two levels deep, a direct edge
\* that skips a level, and nothing thrown
C1_Witness ==
  /\ Rendered
  /\ \E i, j \in 1..Len(aggregatedEdges) :
       /\ aggregatedEdges[i].source \in Reached
       /\ nodeLevel[aggregatedEdges[i].source] = 1
       /\ nodeLevel[aggregatedEdges[i].target] = 2
       /\ aggregatedEdges[j].target = aggregatedEdges[i].target
       /\ nodeLevel[aggregatedEdges[j].source] = 0

(***************************************************************************)
(* C2.  Termination of level assignment.                                   *)
(***************************************************************************)
\* C2 as claimed: the propagation is guarded, so the loop ends on every
\* graph: a level it proposes is the length of a path that visits no node
\* twice, hence the worklist never holds a level as large as the number of
\* nodes of the graph (from such a level on, the loop goes around a cycle
\* and never empties the worklist).
C2_PropagationBounded ==
  pc = "bfs" =>
    \A i \in 1..Len(queue) :
      queue[i].level < Cardinality(Range(nodes) \cup Vertices(aggregatedEdges))

(***************************************************************************)
(* C3.  Self-loop rejection.                                               *)
(***************************************************************************)
\* C3: a call throws the self-loop error, and so produces no markup, exactly
\* when some row with a non-empty trimmed source equal to its trimmed target
\* has a value > 0; self-loop rows with another value never cause it.
C3_SelfLoopRejected ==
  Called =>
    /\ (LoopRows(config.data) # {}) <=> (pc = "thrown" /\ result.kind = "selfloop")
    /\ result.kind = "selfloop" => (flows = <<>> /\ nodePosition = EmptyMap)

\* a self-loop between two valid rows is rejected
C3_Witness ==
  /\ pc = "thrown" /\ result.kind = "selfloop"
  /\ Len(config.data) = 3
  /\ LoopRows(config.data) = {2}
  /\ KeptRows(config.data) = {1, 2, 3}

(***************************************************************************)
(* C4.  Self-loop diagnostics.                                             *)
(***************************************************************************)
\* C4: the self-loop error carries the position of the first offending row,
\* counted over all input rows from 1, plus one for the header line, and the
\* trimmed label of that row.
C4_FirstLoopReported ==
  result.kind = "selfloop" =>
    LET L == LoopRows(config.data)
        first == CHOOSE i \in L : \A j \in L : i <= j
    IN /\ L # {}
       /\ result.row = first + 1
       /\ result.label = Trim(config.data[first].source)

\* the first offender follows a discarded row and precedes another offender
\* with another label, and its label needed trimming
C4_Witness ==
  /\ result.kind = "selfloop"
  /\ Len(config.data) = 3
  /\ LoopRows(config.data) = {2, 3}
  /\ KeptRows(config.data) = {2, 3}
  /\ result.row = 3
  /\ config.data[2].target # result.label
  /\ Trim(config.data[3].source) # result.label

(***************************************************************************)
(* C5.  Empty input.                                                       *)
(***************************************************************************)
\* C5: a call whose table has no row, or only discarded rows, returns the
\* nothing-to-render placeholder, throws nothing, and runs neither level
\* assignment nor sizing nor flow positioning.
C5_NothingToRender ==
  (Called /\ KeptRows(config.data) = {}) =>
    /\ pc = "returned"
    /\ result.kind = (IF Len(config.data) = 0 THEN "nodata" ELSE "noedges")
    /\ nodeLevel = EmptyMap /\ queue = <<>>
    /\ levels = <<>> /\ nodePosition = EmptyMap /\ flows = <<>>

\* three rows, discarded for three different reasons
C5_Witness ==
  /\ pc = "returned" /\ result.kind = "noedges"
  /\ Len(config.data) = 3
  /\ \E i \in 1..3 : Trim(config.data[i].source) = <<>>
  /\ \E i \in 1..3 : config.data[i].value.type = "string"
                        /\ IsNaN(ParseFloat(config.data[i].value.str))
  /\ \E i \in 1..3 : Trim(config.data[i].source) = Trim(config.data[i].target)
                        /\ RowValue(config.data[i]) = Zero

(***************************************************************************)
(* C6.  The self-loop is the only fatal condition.                         *)
(***************************************************************************)
\* C6 as claimed: a call throws only the self-loop error; a table without a
\* retained self-loop never makes renderSankey throw.
C6_OnlySelfLoopThrows == pc = "thrown" => result.kind = "selfloop"

(***************************************************************************)
(* C7.  Edge aggregation.                                                  *)
(***************************************************************************)
PairOf(e) == <<e.source, e.target>>
FirstOccurrence(es, pr) ==
  CHOOSE i \in 1..Len(es) : PairOf(es[i]) = pr /\ \A j \in 1..(i - 1) : PairOf(es[j]) # pr

\* C7 as claimed: the aggregated list has exactly one edge per directed
\* (source, target) pair of the retained rows, valued with the sum of the
\* rows of the pair, in the order of the first occurrences of the pairs.
C7_OneEdgePerPair ==
  pc = "bfs" =>
    LET agg == aggregatedEdges
        pairs == {PairOf(edges[i]) : i \in 1..Len(edges)}
    IN /\ {PairOf(agg[i]) : i \in 1..Len(agg)} = pairs
       /\ Len(agg) = Cardinality(pairs)
       /\ \A i \in 1..Len(agg) :
            PairOf(agg[i]) \in pairs =>
              agg[i].value =
                RSum([j \in 1..Len(edges) |->
                        IF PairOf(edges[j]) = PairOf(agg[i]) THEN edges[j].value ELSE Zero])
       /\ \A i, j \in 1..Len(agg) :
            (i < j /\ PairOf(agg[i]) \in pairs /\ PairOf(agg[j]) \in pairs) =>
              FirstOccurrence(edges, PairOf(agg[i])) < FirstOccurrence(edges, PairOf(agg[j]))

(***************************************************************************)
(* C8.  Aggregation idempotence.                                           *)
(***************************************************************************)
\* C8 as claimed: aggregating the aggregated edge list again gives the same
\* list.
C8_AggregateTwice ==
  pc = "bfs" => AggregateEdges(aggregatedEdges) = aggregatedEdges

(***************************************************************************)
(* C9.  Longest-path levels.                                               *)
(***************************************************************************)
\* C9 as claimed: when the aggregated graph is acyclic, a node without an
\* inbound edge has level 0 and any other node has the length of the longest
\* path that ends in it.
C9_LongestPathLevels ==
  (Levelled /\ Acyclic(aggregatedEdges)) =>
    \A n \in Range(nodes) : nodeLevel[n] = Depth(aggregatedEdges, n)

(***************************************************************************)
(* C10.  Conservation (P4).                                                *)
(***************************************************************************)
\* the flows whose `end` ("source" or "target") is the node n
FlowsAt(n, end) == {i \in 1..Len(flows) : flows[i][end] = n}

\* the heights hk of the flows at the side `end` of n add up to no more than
\* the height of n, unless every one of them was below the minimum flow
\* height before the adjustment (the heights are exact rationals: there is no
\* rounding error to tolerate)
SideConserved(n, end, hk) ==
  LET S == FlowsAt(n, end)
  IN \/ \A i \in S : RLt(stackedFlows[i][hk], MinFlowHeight(heightScale))
     \/ RLe(RSum([i \in 1..Len(flows) |-> IF i \in S THEN flows[i][hk] ELSE Zero]),
            nodePosition[n].height)

\* C10 as claimed: in the final layout, whether proportional or not, the
\* fromHeight of the outgoing flows of a node add up to no more than the
\* height of the node, unless every outgoing flow of the node was below the
\* minimum flow height before the adjustment; likewise the toHeight of its
\* incoming flows.
C10_Conservation ==
  Rendered =>
    \A n \in Range(nodes) :
      /\ SideConserved(n, "source", "fromHeight")
      /\ SideConserved(n, "target", "toHeight")

(***************************************************************************)
(* C11.  Gap-free flow stacking.                                           *)
(***************************************************************************)
\* the edges from level a to level b, in the order of the sequence es of
\* edges or flows
EdgesBetween(es, a, b) ==
  LET sel == SelectSeq(es, LAMBDA e : nodeLevel[e.source] = a /\ nodeLevel[e.target] = b)
  IN [i \in 1..Len(sel) |->
        [source |-> sel[i].source, target |-> sel[i].target, value |-> sel[i].value]]

\* the flows are sorted by source level, then by target level, and flows
\* between the same two levels keep the order the aggregator gave them
InStackingOrder ==
  /\ \A i, j \in 1..Len(flows) :
       i < j => \/ flows[i].fromLevel < flows[j].fromLevel
                \/ /\ flows[i].fromLevel = flows[j].fromLevel
                   /\ flows[i].toLevel <= flows[j].toLevel
  /\ \A i \in 1..Len(flows) :
       /\ flows[i].fromLevel = nodeLevel[flows[i].source]
       /\ flows[i].toLevel = nodeLevel[flows[i].target]
       /\ EdgesBetween(flows, flows[i].fromLevel, flows[i].toLevel)
            = EdgesBetween(AggregateEdges(edges), flows[i].fromLevel, flows[i].toLevel)

\* the flows at the side `end` of n start at the top of n and each begins
\* where the one before it ends
SideStacked(n, end, hk, tk) ==
  \A i \in FlowsAt(n, end) :
    LET before == {j \in FlowsAt(n, end) : j < i}
    IN IF before = {}
       THEN flows[i][tk] = nodePosition[n].top
       ELSE LET p == CHOOSE j \in before : \A k \in before : k <= j
            IN flows[i][tk] = RAdd(flows[p][tk], flows[p][hk])

\* C11: in the final layout the flows are in stacking order (source level,
\* target level, first occurrence), and for every node the outgoing flows in
\* that order start at the node's top and follow one another without gap or
\* overlap; likewise the incoming flows; whether or not the minimum flow
\* height changed a height at the node.
C11_GapFreeStacking ==
  Rendered =>
    /\ InStackingOrder
    /\ \A n \in Range(nodes) :
         /\ SideStacked(n, "source", "fromHeight", "fromTop")
         /\ SideStacked(n, "target", "toHeight", "toTop")

\* some node has three flows at one side, of which the minimum flow height
\* changed one, and some flow was left as it was
C11_Witness ==
  /\ Rendered
  /\ \E n \in Range(nodes) :
       /\ Cardinality(FlowsAt(n, "target")) = 3
       /\ \E i \in FlowsAt(n, "target") :
            flows[i].toHeight # stackedFlows[i].toHeight
  /\ \E i \in 1..Len(flows) : flows[i].fromHeight = stackedFlows[i].fromHeight

(***************************************************************************)
(* C12.  Height normalization (P5).                                        *)
(***************************************************************************)
\* the sizing locals of the call that has returned
SizingOfCall == {Sizing(Graph, config)}

\* content height of level l in the final layout: from the top of its first
\* node to the bottom of its last node
ContentHeight(l) ==
  LET first == levels[l][1]
      last  == levels[l][Len(levels[l])]
  IN RSub(RAdd(nodePosition[last].top, nodePosition[last].height),
          nodePosition[first].top)

\* C12: when the node heights and gaps of at least one level add up to more
\* than 100 before scaling, then in the final layout the largest content
\* height of a level is exactly 100 and no level's content height is above
\* 100.
C12_HeightNormalised ==
  Rendered =>
    \A sz \in SizingOfCall :
      (\E l \in 1..Len(levels) : RGt(sz.levelHeight[l], Hundred)) =>
        /\ \A l \in 1..Len(levels) : RLe(ContentHeight(l), Hundred)
        /\ \E l \in 1..Len(levels) : ContentHeight(l) = Hundred

\* two levels needed more than 100, one more than the other
C12_Witness ==
  /\ Rendered
  /\ \E sz \in SizingOfCall :
       \E a, b \in 1..Len(levels) :
          /\ RGt(sz.levelHeight[a], sz.levelHeight[b])
          /\ RGt(sz.levelHeight[b], Hundred)
          /\ ContentHeight(a) = Hundred
          /\ RLt(ContentHeight(b), Hundred)

(***************************************************************************)
(* C13.  Scenario D: one large incoming flow, two tiny outgoing flows.     *)
(***************************************************************************)
\* the minimum visible flow thickness of the final layout
MinVisible == RDiv(<<2, 5>>, RMax(R(1), heightScale))

\* n has one incoming flow, of value 1000, and two outgoing flows, of value
\* 0.001 each
ScenarioD(n) ==
  /\ Cardinality(FlowsAt(n, "target")) = 1
  /\ \A i \in FlowsAt(n, "target") : flows[i].value = R(1000)
  /\ Cardinality(FlowsAt(n, "source")) = 2
  /\ \A i \in FlowsAt(n, "source") : flows[i].value = <<1, 1000>>

\* the flows at the side `end` of n do not overlap
SideDisjoint(n, end, hk, tk) ==
  \A i, j \in FlowsAt(n, end) :
    i < j => RLe(RAdd(flows[i][tk], flows[i][hk]), flows[j][tk])

\* C13 as claimed: at such a node both tiny outgoing flows have the minimum
\* visible thickness, the large flow is thinner at the node than it was
\* before the adjustment, and no two flows overlap at the node.
C13_LargeFlowReduced ==
  Rendered =>
    \A n \in Range(nodes) :
      ScenarioD(n) =>
        /\ \A i \in FlowsAt(n, "source") : flows[i].fromHeight = MinVisible
        /\ \A i \in FlowsAt(n, "target") :
             RLt(flows[i].toHeight, stackedFlows[i].toHeight)
        /\ SideDisjoint(n, "source", "fromHeight", "fromTop")
        /\ SideDisjoint(n, "target", "toHeight", "toTop")

\* C13 amended: at such a node both tiny outgoing flows have the minimum
\* visible thickness and follow one another from the node's top without
\* overlap; the large incoming flow, which is alone at its side of the node,
\* keeps its height, the full height of the node.
C13_LargeFlowKept ==
  Rendered =>
    \A n \in Range(nodes) :
      ScenarioD(n) =>
        /\ \A i \in FlowsAt(n, "source") : flows[i].fromHeight = MinVisible
        /\ \A i \in FlowsAt(n, "target") :
             /\ flows[i].toHeight = stackedFlows[i].toHeight
             /\ flows[i].toHeight = nodePosition[n].height
             /\ flows[i].toTop = nodePosition[n].top
        /\ SideDisjoint(n, "source", "fromHeight", "fromTop")
        /\ SideStacked(n, "source", "fromHeight", "fromTop")

\* the scenario, rendered with tiny flows that had to be raised
C13_Witness ==
  /\ Rendered
  /\ \E n \in Range(nodes) :
       /\ ScenarioD(n)
       /\ \A i \in FlowsAt(n, "source") :
            /\ RLt(stackedFlows[i].fromHeight, MinVisible)
            /\ flows[i].fromHeight = MinVisible

(***************************************************************************)
(* C14.  Proportional mode keeps node sizes proportional.                  *)
(***************************************************************************)
\* total value of the retained rows into n and out of n
TotalIn(n) ==
  RSum([i \in 1..Len(edges) |-> IF edges[i].target = n THEN edges[i].value ELSE Zero])
TotalOut(n) ==
  RSum([i \in 1..Len(edges) |-> IF edges[i].source = n THEN edges[i].value ELSE Zero])
ThroughputOf(n) == RMax(TotalIn(n), TotalOut(n))

\* the gap under the k-th node of level l in the final layout
GapBelow(l, k) ==
  RSub(nodePosition[levels[l][k + 1]].top,
       RAdd(nodePosition[levels[l][k]].top, nodePosition[levels[l][k]].height))

\* the configured padding, as a percentage: (nodePadding / 400) * 100
ConfiguredPadding == <<100 * config.nodePadding, 400>>

\* C14: with proportional = true, in the final layout the heights of any two
\* nodes are in the ratio of their throughputs, so no node was raised to a
\* minimum height, and the gap between neighbours of a level is the
\* configured padding (divided by heightScale like every position).
C14_ProportionalNodes ==
  (Rendered /\ config.proportional) =>
    /\ \A a, b \in Range(nodes) :
         RMul(nodePosition[a].height, ThroughputOf(b))
           = RMul(nodePosition[b].height, ThroughputOf(a))
    /\ \A l \in 1..Len(levels) : \A k \in 1..(Len(levels[l]) - 1) :
         RMul(GapBelow(l, k), RMax(R(1), heightScale))
           = Norm(ConfiguredPadding[1], ConfiguredPadding[2])

\* a proportional layout with a level where most nodes are below the minimum
\* node height, next to a node more than a hundred times as tall
C14_Witness ==
  /\ Rendered /\ config.proportional
  /\ \E l \in 1..Len(levels) :
       /\ 2 * Cardinality({k \in 1..Len(levels[l]) :
              RLt(RMul(nodePosition[levels[l][k]].height, heightScale), R(2))})
            > Len(levels[l])
       /\ \E j, k \in 1..Len(levels[l]) :
            RGt(nodePosition[levels[l][j]].height,
                RMul(R(100), nodePosition[levels[l][k]].height))

(***************************************************************************)
(* C15.  Proportional mode and the minimum flow thickness.                 *)
(***************************************************************************)
\* C15 as claimed: with proportional = true the pass that enforces the
\* minimum flow height changes no flow, so every flow of the final layout has
\* fromHeight = (value / throughput(source)) * height(source) and
\* toHeight = (value / throughput(target)) * height(target), flows thinner
\* than the minimum included.
C15_ProportionalFlows ==
  (Rendered /\ config.proportional) =>
    /\ flows = stackedFlows
    /\ \A i \in 1..Len(flows) :
         /\ flows[i].fromHeight =
              RMul(RDiv(flows[i].value, ThroughputOf(flows[i].source)),
                   nodePosition[flows[i].source].height)
         /\ flows[i].toHeight =
              RMul(RDiv(flows[i].value, ThroughputOf(flows[i].target)),
                   nodePosition[flows[i].target].height)

(***************************************************************************)
(* C16.  Node set integrity.                                               *)
(***************************************************************************)
\* the trimmed labels of the retained rows, and of all rows
LabelsOf(data, rows) ==
  {Trim(data[i].source) : i \in rows} \cup {Trim(data[i].target) : i \in rows}
RetainedLabels == LabelsOf(config.data, KeptRows(config.data))

\* where a retained label first appears: sources before targets, row by row
FirstAppearance(label) ==
  LET data == config.data
      at == {2 * i - 1 : i \in {r \in KeptRows(data) : Trim(data[r].source) = label}}
              \cup {2 * i : i \in {r \in KeptRows(data) : Trim(data[r].target) = label}}
  IN CHOOSE p \in at : \A q \in at : p <= q

\* the places (level, position) where the label stands in the level buckets
PlacesOf(label) ==
  {<<l, k>> \in (1..Len(levels)) \X (1..Cardinality(RetainedLabels)) :
     k <= Len(levels[l]) /\ levels[l][k] = label}

\* C16: in a layout every label of a retained row stands exactly once in the
\* level buckets and has one position; inside a bucket the labels are in the
\* order of their first appearance in the input (source before target in a
\* row); the buckets, the positions and the flows hold no other label, so a
\* label that occurs in discarded rows only is in no level and in no flow.
C16_NodeSetIntegrity ==
  Rendered =>
    /\ \A label \in RetainedLabels : Cardinality(PlacesOf(label)) = 1
    /\ \A l \in 1..Len(levels) : \A k \in 1..Len(levels[l]) :
         levels[l][k] \in RetainedLabels
    /\ \A l \in 1..Len(levels) : \A j, k \in 1..Len(levels[l]) :
         j < k => FirstAppearance(levels[l][j]) < FirstAppearance(levels[l][k])
    /\ DOMAIN nodePosition = RetainedLabels
    /\ \A i \in 1..Len(flows) :
         flows[i].source \in RetainedLabels /\ flows[i].target \in RetainedLabels

\* a layout of a table with a label in a discarded row only, a label in two
\* retained rows, and a bucket of two labels
C16_Witness ==
  /\ Rendered
  /\ LabelsOf(config.data, 1..Len(config.data)) \ (RetainedLabels \cup {<<>>}) # {}
  /\ \E i, j \in KeptRows(config.data) :
       i < j /\ Trim(config.data[i].target) = Trim(config.data[j].target)
  /\ \E l \in 1..Len(levels) : Len(levels[l]) = 2

(***************************************************************************)
(* C17.  Node geometry bounds.                                             *)
(***************************************************************************)
\* C17: in the final layout, proportional or not, every node has a height
\* above 0, a top of at least 0 and a bottom (top + height) of at most 100.
C17_NodeWithinBounds ==
  Rendered =>
    \A n \in Range(nodes) :
      /\ RGt(nodePosition[n].height, Zero)
      /\ RGe(nodePosition[n].top, Zero)
      /\ RLe(RAdd(nodePosition[n].top, nodePosition[n].height), Hundred)

\* a layout that was scaled down: one level fills 0..100, another one is
\* centred between
C17_Witness ==
  /\ Rendered
  /\ RGt(heightScale, R(1))
  /\ \E a, b, c \in Range(nodes) :
       /\ nodePosition[a].top = Zero
       /\ nodePosition[b].level = nodePosition[a].level
       /\ RAdd(nodePosition[b].top, nodePosition[b].height) = Hundred
       /\ nodePosition[c].level # nodePosition[a].level
       /\ RGt(nodePosition[c].top, Zero)
       /\ RLt(RAdd(nodePosition[c].top, nodePosition[c].height), Hundred)

(***************************************************************************)
(* C18.  No state persists between renders.                                *)
(***************************************************************************)
\* what one call for cfg builds when it is the only call ever made
ParsedAlone(cfg) == ParseRows(cfg.data, 1, EmptyGraph)

\* the level the propagation leaves on v, reached the nodes it reaches (no path
\* among them returns to its start when the loop ends)
RECURSIVE LevelAlone(_, _, _)
LevelAlone(agg, reached, v) ==
  IF v \notin reached \/ Preds(agg, v) \cap reached = {} THEN 0
  ELSE 1 + SetMax({LevelAlone(agg, reached, u) : u \in Preds(agg, v) \cap reached})

GraphAlone(cfg) ==
  LET g    == ParsedAlone(cfg)
      agg  == AggregateEdges(g.edges)
      srcs == {n \in Range(g.nodeSet) : ~MapHas(g.nodeInFlow, n)}
      rd   == srcs \cup Descendants(agg, srcs)
  IN [nodes |-> g.nodeSet,
      nodeLevel |-> MapOf([n \in Range(g.nodeSet) |-> LevelAlone(agg, rd, n)]),
      aggregatedEdges |-> agg,
      nodeInFlow |-> g.nodeInFlow, nodeOutFlow |-> g.nodeOutFlow]

ResultAlone(cfg) ==
  LET g == ParsedAlone(cfg)
  IN IF Len(cfg.data) = 0 THEN Returned("nodata")
     ELSE IF g.error.kind # "none" THEN g.error
     ELSE IF Len(g.edges) = 0 THEN Returned("noedges")
     ELSE IF \E i \in 1..Len(g.edges) :
                \/ Split(EdgeKey(g.edges[i].source, g.edges[i].target))[1]
                      \notin Range(g.nodeSet)
                \/ Split(EdgeKey(g.edges[i].source, g.edges[i].target))[2]
                      \notin Range(g.nodeSet)
          THEN Returned("typeerror")
     ELSE Returned("html")

\* the chart of the call is the chart of the same call made alone
LayoutAlone ==
  \E G \in {GraphAlone(config)} : \E sz \in {Sizing(G, config)} :
    /\ nodeLevel = G.nodeLevel
    /\ nodePosition = sz.nodePosition
    /\ heightScale = sz.heightScale
    /\ flows = Flows(StackedFlows(FlowData(SortEdges(G), sz.nodePosition,
                                           sz.nodeThroughput),
                                  sz.nodePosition),
                     sz.nodePosition, MinFlowHeight(sz.heightScale))

OutcomeAlone ==
  /\ result = ResultAlone(config)
  /\ \E g \in {ParsedAlone(config)} :
       /\ edges = g.edges /\ nodes = g.nodeSet
       /\ nodeInFlow = g.nodeInFlow /\ nodeOutFlow = g.nodeOutFlow
  /\ result.kind = "html" => LayoutAlone

\* C18: in any sequence of calls, what a finished call returned or threw,
\* and the graph and the chart it built, are those of the same configuration
\* rendered alone, whatever the calls before it were; and no step of a
\* call changes the rows it was given.
C18_NoStateBetweenRenders ==
  /\ [](Finished => OutcomeAlone)
  /\ [][Called => (pc' = "idle" \/ config' = config)]_vars

\* a chart is returned by a call that follows a call that threw
C18_Witness ==
  /\ Rendered
  /\ previous = "selfloop"
  /\ Len(flows) >= 2

(***************************************************************************)
(* C19.  Raw node height.                                                  *)
(***************************************************************************)
\* the throughput of every node, from the rows
ThroughputOfNodes == MapOf([n \in Range(nodes) |-> ThroughputOf(n)])

\* the raw and the floored heights of the call
HeightsOfCall ==
  {Heights(G, config, Throughputs(G, config)) : G \in {Graph}}

\* the largest throughput among the nodes of level l (l counted from 1)
PeakOfLevel(tp, l) == RMaxSeq([k \in 1..Len(levels[l]) |-> tp[levels[l][k]]])

\* the throughputs of the nodes of level l added up
TotalOfLevel(tp, l) == RSum([k \in 1..Len(levels[l]) |-> tp[levels[l][k]]])

\* the largest total of a level
LargestLevelTotal(tp) == RMaxSeq([l \in 1..Len(levels) |-> TotalOfLevel(tp, l)])

\* the uniform scale-up of proportional mode: 0.4 over the smallest share
\* when that share is below 0.4, otherwise 1
ScaleUp(tp, total) ==
  LET smallest == RMinSeq([i \in 1..Len(nodes) |->
                    RMul(RDiv(tp[nodes[i]], total), Hundred)])
  IN IF config.proportional /\ RGt(smallest, Zero)
          /\ RLt(smallest, proportionalMinHeight)
     THEN RDiv(proportionalMinHeight, smallest)
     ELSE R(1)

\* the raw heights of the nodes of level l added up
RawTotalOfLevel(raw, l) ==
  RSum([k \in 1..Len(levels[l]) |-> raw[levels[l][k]]])

InDegree(n) ==
  Cardinality({i \in 1..Len(aggregatedEdges) : aggregatedEdges[i].target = n})
OutDegree(n) ==
  Cardinality({i \in 1..Len(aggregatedEdges) : aggregatedEdges[i].source = n})
MaxFlowCount(n) ==
  IF InDegree(n) > OutDegree(n) THEN InDegree(n) ELSE OutDegree(n)

\* max(minNodeHeight, maxFlowCount * minFlowHeightBase)
FloorOf(n) == RMax(minNodeHeight, RMul(R(MaxFlowCount(n)), minFlowHeightBase))

\* the height of n before the global scaling, read from the final layout
HeightBeforeScaling(n) ==
  RMul(nodePosition[n].height, RMax(R(1), heightScale))

\* C20: with proportional = false, before the global scaling the height of
\* every node is max(rawHeight, minNodeHeight, maxFlowCount * 0.4),
\* maxFlowCount the larger of the in-degree and out-degree of the node on
\* the aggregated edges; a node whose raw height meets its floor keeps its
\* raw height, whatever happens to the other nodes of its level.
C20_MinimumNodeHeight ==
  (Levelled /\ ~config.proportional) =>
    \A sz \in HeightsOfCall : \A n \in Range(nodes) :
      \E floor \in {FloorOf(n)} : \E final \in {HeightBeforeScaling(n)} :
        /\ sz.sizedHeight[n] = RMax(sz.rawHeight[n], floor)
        /\ final = sz.sizedHeight[n]
        /\ RGe(sz.rawHeight[n], floor) => final = sz.rawHeight[n]

\* in one level, a node of raw height above 2 is raised to the 2.4 of its
\* six flows, and a node above its floor keeps its raw height
C20_Witness ==
  /\ Rendered
  /\ ~config.proportional
  /\ \E sz \in HeightsOfCall : \E l \in 1..Len(levels) :
      \E a, b \in Range(levels[l]) :
        /\ MaxFlowCount(a) = 6
        /\ RGt(sz.rawHeight[a], minNodeHeight)
        /\ RLt(sz.rawHeight[a], FloorOf(a))
        /\ HeightBeforeScaling(a) = FloorOf(a)
        /\ RGt(sz.rawHeight[b], FloorOf(b))
        /\ HeightBeforeScaling(b) = sz.rawHeight[b]

(***************************************************************************)
(* C21.  Padding escalation.                                               *)
(***************************************************************************)
\* the nodes of level l whose height is raised to their floor
RaisedIn(h, l) ==
  {k \in 1..Len(levels[l]) :
     RLt(h.rawHeight[levels[l][k]], FloorOf(levels[l][k]))}

\* the nodes of level l whose raw height is below minNodeHeight
SmallIn(h, l) ==
  {k \in 1..Len(levels[l]) : RLt(h.rawHeight[levels[l][k]], minNodeHeight)}

\* the configured padding as a percentage, nodePadding / 4
ConfiguredGap == RDiv(R(config.nodePadding), R(4))

\* the gap under the k-th node of level l before the global scaling
GapBeforeScaling(l, k) == RMul(GapBelow(l, k), RMax(R(1), heightScale))

\* C21 as claimed: with proportional = false, the gap between consecutive
\* nodes of a level is max(configured padding, minimum gap) exactly when
\* more than half of the nodes of the level are raised to their floor
\* max(minNodeHeight, maxFlowCount * 0.4), and the configured padding
\* otherwise.
C21_PaddingEscalation ==
  (Levelled /\ ~config.proportional) =>
    \A h \in HeightsOfCall : \A l \in 1..Len(levels) :
      \A k \in 1..(Len(levels[l]) - 1) :
        GapBeforeScaling(l, k)
          = IF 2 * Cardinality(RaisedIn(h, l)) > Len(levels[l])
            THEN RMax(ConfiguredGap, minGapHeight)
            ELSE ConfiguredGap

\* what the code does: the nodes counted are those of raw height below
\* minNodeHeight, raised by their number of flows or not
C21_PaddingBySmallNodes ==
  (Levelled /\ ~config.proportional) =>
    \A h \in HeightsOfCall : \A l \in 1..Len(levels) :
      \A k \in 1..(Len(levels[l]) - 1) :
        GapBeforeScaling(l, k)
          = IF 2 * Cardinality(SmallIn(h, l)) > Len(levels[l])
            THEN RMax(ConfiguredGap, minGapHeight)
            ELSE ConfiguredGap

(***************************************************************************)
(* C22.  Node stacking within a level.                                     *)
(***************************************************************************)
\* the bottom of a node in the final layout
BottomOf(n) == RAdd(nodePosition[n].top, nodePosition[n].height)

\* C22: in the final layout, any two consecutive nodes of a level (in input
\* order) satisfy next.top = prev.top + prev.height + gap, with one gap for
\* all consecutive pairs of the level and gap >= 0 (nodePadding >= 0); so
\* no two nodes of a level overlap vertically.
C22_StackedInLevel ==
  Levelled =>
    \A l \in 1..Len(levels) :
      /\ \A k \in 1..(Len(levels[l]) - 1) :
            /\ GapBelow(l, k) = GapBelow(l, 1)
            /\ RGe(GapBelow(l, k), Zero)
            /\ SelectSeq(nodes, LAMBDA n : n \in {levels[l][k], levels[l][k + 1]})
                 = <<levels[l][k], levels[l][k + 1]>>
      /\ \A i, j \in 1..Len(levels[l]) :
            i < j => RLe(BottomOf(levels[l][i]), nodePosition[levels[l][j]].top)

\* a level of three nodes or more with a gap above 0, in a chart that was
\* scaled down and has a level that was centred
C22_Witness ==
  /\ Rendered
  /\ RGt(heightScale, R(1))
  /\ \E l \in 1..Len(levels) :
        /\ Len(levels[l]) >= 3
        /\ RGt(GapBelow(l, 1), Zero)
        /\ nodePosition[levels[l][1]].height # nodePosition[levels[l][2]].height
  /\ \E l \in 1..Len(levels) : RGt(nodePosition[levels[l][1]].top, Zero)

(***************************************************************************)
(* C23.  Uniform global scaling.                                           *)
(***************************************************************************)
\* nodePosition of the call before the scaling step, and after it (before
\* the centring)
ScalingFrom(G, t, h, sc) ==
  [before |-> Placed(G, t.levels, h, sc),
   after  |-> Scaled(Placed(G, t.levels, h, sc), sc.heightScale)]
ScalingWith(G, t, h) == ScalingFrom(G, t, h, Scale(config, t.levels, h))
ScalingFor(G, t) == ScalingWith(G, t, Heights(G, config, t))
ScalingOfCall == {ScalingFor(Graph, Throughputs(Graph, config))}

\* the height level l requires: the bottom of its last node before scaling
\* (nothing for a level without nodes)
RequiredHeight(before, l) ==
  IF levels[l] = <<>> THEN Zero
  ELSE RAdd(before[levels[l][Len(levels[l])]].top,
            before[levels[l][Len(levels[l])]].height)

\* the largest height a level requires
LargestRequired(before) ==
  RMaxSeq([l \in 1..Len(levels) |-> RequiredHeight(before, l)])

\* C23: when the height some level requires exceeds 100, the scaling step
\* divides the top and the height of every node of every level by the one
\* factor maxLevelHeight / 100, so the ratio of the heights of any two
\* nodes is unchanged (also in the final layout); when no level exceeds
\* 100, the scaling step changes no top and no height.
C23_UniformScaling ==
  Levelled =>
    \A s \in ScalingOfCall : \E largest \in {LargestRequired(s.before)} :
      /\ RGt(largest, Hundred) =>
            \A n \in Range(nodes) :
              /\ s.after[n].top = RDiv(s.before[n].top, RDiv(largest, Hundred))
              /\ s.after[n].height = RDiv(s.before[n].height, RDiv(largest, Hundred))
              /\ nodePosition[n].height = s.after[n].height
      /\ RLe(largest, Hundred) =>
            \A n \in Range(nodes) :
              /\ s.after[n].top = s.before[n].top
              /\ s.after[n].height = s.before[n].height
              /\ nodePosition[n].height = s.before[n].height
      /\ \A a, b \in Range(nodes) :
            RMul(nodePosition[a].height, s.before[b].height)
              = RMul(nodePosition[b].height, s.before[a].height)

\* the second level overflows, the first does not, and the nodes of the
\* first are scaled down all the same
C23_Witness ==
  /\ Rendered
  /\ Len(levels) >= 2
  /\ \E s \in ScalingOfCall :
        /\ RLe(RequiredHeight(s.before, 1), Hundred)
        /\ RGt(RequiredHeight(s.before, 2), Hundred)
        /\ RLt(nodePosition[levels[1][1]].height, s.before[levels[1][1]].height)

(***************************************************************************)
(* C24.  Per-level centring.                                               *)
(***************************************************************************)
\* the span of the content of level l after the scaling step: from 0 to the
\* bottom of its last node
SpanOf(after, l) ==
  RAdd(after[levels[l][Len(levels[l])]].top,
       after[levels[l][Len(levels[l])]].height)

\* C24: in the final layout every level (that has nodes) is centred in the
\* band from 0 to 100: the top of its first node is 100 minus the bottom
\* of its last node, every node of the level was shifted down by the same
\* offset (100 - span) / 2, and a level whose content spans 100 is not
\* shifted.
C24_LevelCentred ==
  Levelled =>
    \A s \in ScalingOfCall : \A l \in 1..Len(levels) :
      levels[l] # <<>> =>
        \E span \in {SpanOf(s.after, l)} :
          /\ nodePosition[levels[l][1]].top
               = RSub(Hundred, BottomOf(levels[l][Len(levels[l])]))
          /\ \A k \in 1..Len(levels[l]) :
                nodePosition[levels[l][k]].top
                  = RAdd(s.after[levels[l][k]].top,
                         RDiv(RSub(Hundred, span), R(2)))
          /\ span = Hundred =>
                \A k \in 1..Len(levels[l]) :
                  nodePosition[levels[l][k]].top = s.after[levels[l][k]].top

\* a level of two nodes that is shifted beside a level that spans 100
C24_Witness ==
  /\ Rendered
  /\ \E s \in ScalingOfCall : \E l, m \in 1..Len(levels) :
        /\ Len(levels[l]) >= 2
        /\ RLt(SpanOf(s.after, l), Hundred)
        /\ RGt(nodePosition[levels[l][2]].top, s.after[levels[l][2]].top)
        /\ SpanOf(s.after, m) = Hundred
        /\ nodePosition[levels[m][1]].top = Zero

(***************************************************************************)
(* C25.  Minimum visible flow thickness.                                   *)
(***************************************************************************)
\* C25 as claimed: with proportional = false, after the minimum-thickness
\* pass every flow has fromHeight >= minFlowHeight and toHeight >=
\* minFlowHeight, minFlowHeight being 0.4 divided by the height scale when
\* that exceeds 1; in particular no flow that was at or above the minimum
\* before the pass ends below it.
C25_MinimumFlowThickness ==
  (Rendered /\ ~config.proportional) =>
    \A i \in 1..Len(flows) :
      /\ RGe(flows[i].fromHeight, MinVisible)
      /\ RGe(flows[i].toHeight, MinVisible)

(***************************************************************************)
(* C26.  Borrowing preserves the total.                                    *)
(***************************************************************************)
\* the heights hk of the flows S in the sequence fs of flows, added up
SumOver(fs, S, hk) ==
  RSum([i \in 1..Len(fs) |-> IF i \in S THEN fs[i][hk] ELSE Zero])

\* the flows of S below the minimum before the pass
SmallOf(S, hk) == {i \in S : RLt(stackedFlows[i][hk], MinVisible)}

\* the space the small flows of S need to reach the minimum
SpaceNeeded(S, hk) ==
  RSum([i \in 1..Len(flows) |->
          IF i \in SmallOf(S, hk) THEN RSub(MinVisible, stackedFlows[i][hk])
          ELSE Zero])

\* the side borrows: some flow is small and the large ones can pay
Borrows(S, hk) ==
  /\ SmallOf(S, hk) # {}
  /\ RLe(SpaceNeeded(S, hk), SumOver(stackedFlows, S \ SmallOf(S, hk), hk))

\* the pass at the side S: small flows at the minimum, large flows times
\* (1 - borrowRatio), the total unchanged
Borrowed(S, hk) ==
  \E small \in {SmallOf(S, hk)} :
  \E ratio \in {RDiv(SpaceNeeded(S, hk), SumOver(stackedFlows, S \ small, hk))} :
    /\ \A i \in small : flows[i][hk] = MinVisible
    /\ \A i \in S \ small :
          flows[i][hk] = RMul(stackedFlows[i][hk], RSub(R(1), ratio))
    /\ SumOver(flows, S, hk) = SumOver(stackedFlows, S, hk)

\* C26: on one side (outgoing or incoming) of a node where at least one flow
\* is below the minimum and the space needed to raise the small flows does
\* not exceed the total height of the flows at or above the minimum, the
\* pass raises each small flow exactly to the minimum, multiplies each large
\* flow by (1 - borrowRatio) with borrowRatio = spaceNeeded / largeTotal,
\* and leaves the sum of the flow heights of that side unchanged.
C26_BorrowingKeepsTotal ==
  Rendered =>
    \A n \in Range(nodes) :
      /\ Borrows(FlowsAt(n, "source"), "fromHeight")
           => Borrowed(FlowsAt(n, "source"), "fromHeight")
      /\ Borrows(FlowsAt(n, "target"), "toHeight")
           => Borrowed(FlowsAt(n, "target"), "toHeight")

\* a side with two small flows or more and two large ones that pay a part
\* of their height
C26_Witness ==
  /\ Rendered
  /\ \E n \in Range(nodes) : \E S \in {FlowsAt(n, "source")} :
        /\ Borrows(S, "fromHeight")
        /\ Cardinality(SmallOf(S, "fromHeight")) >= 2
        /\ Cardinality(S \ SmallOf(S, "fromHeight")) >= 2
        /\ RLt(SpaceNeeded(S, "fromHeight"),
               SumOver(stackedFlows, S \ SmallOf(S, "fromHeight"), "fromHeight"))

(***************************************************************************)
(* C27.  Unreached nodes default to level 0.                               *)
(***************************************************************************)
\* every node the propagation never reaches is at level 0
UnreachedAtLevelZero == \A n \in Range(nodes) \ Reached : nodeLevel[n] = 0

\* C27 as claimed: when the worklist has emptied, every node that the
\* propagation from the source nodes never reaches has level 0; and when no
\* node is a source, every node has level 0, levelCount is 1 and the render
\* completes.
C27_UnreachedAtLevelZero ==
  /\ Levelled => UnreachedAtLevelZero
  /\ (Finished /\ KeptRows(config.data) # {} /\ LoopRows(config.data) = {}
        /\ NoInflow = {}) =>
       /\ \A n \in Range(nodes) : nodeLevel[n] = 0
       /\ Len(levels) = 1
       /\ Rendered

\* the part that holds: unreached nodes are at level 0, and without a source
\* all nodes are in the one level
C27_LevelZeroOnly ==
  Levelled =>
    /\ UnreachedAtLevelZero
    /\ NoInflow = {} => (Len(levels) = 1 /\ \A n \in Range(nodes) : nodeLevel[n] = 0)

(***************************************************************************)
(* C28.  Aggregation key round-trip.                                       *)
(***************************************************************************)
\* the retained rows (edges) merged into the aggregated edge of key k
MergedInto(k) ==
  {j \in 1..Len(edges) : EdgeKey(edges[j].source, edges[j].target) = k}

\* C28 as claimed: the source and target of every aggregated edge are the
\* trimmed source and target of the retained rows merged into it, so both
\* are nodes, and two retained rows with different (source, target) pairs
\* are never merged into one edge; for all non-empty labels, those that
\* contain '::' included.
C28_KeyRoundTrip ==
  pc = "bfs" =>
    /\ \A i \in 1..Len(aggregatedEdges) :
          /\ aggregatedEdges[i].source \in Range(nodes)
          /\ aggregatedEdges[i].target \in Range(nodes)
          /\ \E j \in 1..Len(edges) : PairOf(edges[j]) = PairOf(aggregatedEdges[i])
    /\ \A j \in 1..Len(edges) :
          \A k \in MergedInto(EdgeKey(edges[j].source, edges[j].target)) :
            PairOf(edges[k]) = PairOf(edges[j])

(***************************************************************************)
(* C29.  No empty level.                                                   *)
(***************************************************************************)
\* C29 as claimed: whenever level assignment completes, levelCount is the
\* largest level plus one and every level from 0 to levelCount - 1 holds at
\* least one node.
C29_NoEmptyLevel ==
  Levelled =>
    /\ Len(levels) = SetMax({nodeLevel[n] : n \in DOMAIN nodeLevel}) + 1
    /\ \A l \in 1..Len(levels) : levels[l] # <<>>

(***************************************************************************)
(* C30.  Raw level heights fit the band.                                   *)
(***************************************************************************)
\* level l needs more than 100 before the scaling step
Overflows(s, l) == RGt(RequiredHeight(s.before, l), Hundred)

\* level l has a node that was raised to its floor, or a gap above 0
FlooredOrPadded(s, h, l) ==
  \/ \E k \in 1..Len(levels[l]) :
        RGt(h.sizedHeight[levels[l][k]], h.rawHeight[levels[l][k]])
  \/ /\ Len(levels[l]) >= 2
     /\ RGt(s.before[levels[l][2]].top, h.sizedHeight[levels[l][1]])

\* C30: with no proportional scale-up (proportionalScale = 1), before the
\* minimum-height flooring and the padding, the raw heights of the nodes of
\* any one level add up to at most 100, and to exactly 100 for a level
\* whose total throughput is the largest among all levels; a level requires
\* more than 100 only when one of its nodes was raised to its floor or its
\* nodes are separated by padding.
C30_RawLevelFitsBand ==
  Levelled =>
    \A h \in HeightsOfCall : \E tp \in {ThroughputOfNodes} :
    \E total \in {LargestLevelTotal(tp)} :
      ScaleUp(tp, total) = R(1) =>
        /\ \A l \in 1..Len(levels) :
              /\ RLe(RawTotalOfLevel(h.rawHeight, l), Hundred)
              /\ TotalOfLevel(tp, l) = total
                   => RawTotalOfLevel(h.rawHeight, l) = Hundred
        /\ \A s \in ScalingOfCall : \A l \in 1..Len(levels) :
              Overflows(s, l) => FlooredOrPadded(s, h, l)

\* three levels: one of the largest total with two nodes, one below 100,
\* and one that overflows through flooring or padding only
C30_Witness ==
  /\ Rendered
  /\ \E h \in HeightsOfCall : \E s \in ScalingOfCall :
     \E tp \in {ThroughputOfNodes} : \E total \in {LargestLevelTotal(tp)} :
        /\ ScaleUp(tp, total) = R(1)
        /\ \E l, m \in 1..Len(levels) :
              /\ Len(levels[l]) >= 2
              /\ RawTotalOfLevel(h.rawHeight, l) = Hundred
              /\ Overflows(s, l)
              /\ RLt(RawTotalOfLevel(h.rawHeight, m), Hundred)
====
